---- MODULE Spec2Model ----
(***************************************************************************)
(* The to-do REST backend of server.js as a state machine.                 *)
(*                                                                         *)
(* State: the two tables of the store (users, todos) with their BIGSERIAL  *)
(* sequences, the store's clock (NOW()), the server's clock (the one       *)
(* jsonwebtoken reads), the tokens the server has issued, and the last     *)
(* response sent together with the request it answers.                     *)
(*                                                                         *)
(* Every route handler awaits exactly one store statement.  What precedes  *)
(* the statement (the access gate, the input validation) reads only the    *)
(* request; what follows reads only the statement's result.  A handler is  *)
(* therefore one action, taken at the instant its statement executes, and  *)
(* requests served concurrently are interleavings of these actions.        *)
(***************************************************************************)
EXTENDS Integers, Sequences, FiniteSets

VARIABLES users, todos, usersSeq, todosSeq, dbNow, now, tokens, resp

vars == <<users, todos, usersSeq, todosSeq, dbNow, now, tokens, resp>>

(***************************************************************************)
(* Bounds of the model.                                                    *)
(***************************************************************************)
\* Spec: last values the users and the todos BIGSERIAL may hand out
MaxGateUserId == 1
MaxGateTodoId == 1
\* Spec: tokens a behaviour issues at most
MaxTokens == 1
\* Spec: the server's clock stops at JWT_EXPIRES_IN + MaxLate, and no token
\* is issued after MaxLate
MaxLate == 0
\* SpecTodos, SpecItems: last value the todos BIGSERIAL may hand out
MaxTodoId == 2
\* SpecTodos, SpecItems: last reading of the store's clock
MaxDbTime == 1
\* SpecInput: last values the users and the todos BIGSERIAL may hand out
MaxUserId == 2
MaxInputTodoId == 1
\* SpecSession: last values the users and the todos BIGSERIAL may hand out
\* (the users' also in SpecItems)
MaxSessionUserId == 1
MaxSessionTodoId == 1
\* SpecSession: tokens a behaviour issues at most, and the last time one is
\* issued; the server's clock stops at JWT_EXPIRES_IN + MaxLoginTime
MaxSessionTokens == 2
MaxLoginTime == 1

(***************************************************************************)
(* Program constants.                                                      *)
(***************************************************************************)
\* server.js:47  JWT_EXPIRES_IN = '7d', in days
JWT_EXPIRES_IN == 7
\* server.js:48
SALT_ROUNDS == 10
\* server.js:190  password.length < 6
MinPasswordLen == 6
\* CLAUDE.md: POST /api/todos, at most 500 characters, validated by the server
MaxTextLen == 500

(***************************************************************************)
(* Strings.  A string is a sequence of runs [c, n]: the character c        *)
(* repeated n >= 1 times, no two neighbouring runs of the same character.  *)
(***************************************************************************)
Run(c, n) == [c |-> c, n |-> n]

\* the string of the characters of a tuple, each once
RECURSIVE Canon(_)
Canon(s) ==
    IF Len(s) <= 1 THEN s
    ELSE LET r == Canon(Tail(s))
         IN IF Head(s).c = Head(r).c
            THEN <<Run(Head(s).c, Head(s).n + Head(r).n)>> \o Tail(r)
            ELSE <<Head(s)>> \o r

Str(chars) == Canon([i \in 1..Len(chars) |-> Run(chars[i], 1)])

Rep(c, n) == <<Run(c, n)>>

RECURSIVE StrLen(_)
StrLen(s) == IF s = <<>> THEN 0 ELSE Head(s).n + StrLen(Tail(s))

\* the characters of a string, one by one
RECURSIVE Expand(_)
Expand(s) ==
    IF s = <<>> THEN <<>>
    ELSE [i \in 1..Head(s).n |-> Head(s).c] \o Expand(Tail(s))

\* \s of a JavaScript regular expression and of String.prototype.trim
IsWs(c) == c \in {" ", "\t", "\n"}

Lower(c) ==
    CASE c = "A" -> "a"
      [] c = "B" -> "b"
      [] c = "X" -> "x"
      [] OTHER -> c

toLowerCase(s) == Canon([i \in 1..Len(s) |-> Run(Lower(s[i].c), s[i].n)])

trim(s) ==
    LET keep == {i \in 1..Len(s) : ~IsWs(s[i].c)}
    IN IF keep = {} THEN <<>>
       ELSE LET lo == CHOOSE i \in keep : \A j \in keep : i <= j
                hi == CHOOSE i \in keep : \A j \in keep : j <= i
            IN SubSeq(s, lo, hi)

\* /^[^\s@]+@[^\s@]+\.[^\s@]+$/ : no white space, one @ with something before
\* it, and after it a dot with something on both sides
emailRegexTest(s) ==
    LET cs == Expand(s)
        ats == {i \in 1..Len(cs) : cs[i] = "@"}
    IN /\ \A i \in 1..Len(cs) : ~IsWs(cs[i])
       /\ Cardinality(ats) = 1
       /\ \E a \in ats :
            /\ a > 1
            /\ \E d \in (a + 2)..(Len(cs) - 1) : cs[d] = "."

(***************************************************************************)
(* JSON values of a request body, as JavaScript sees them.                 *)
(***************************************************************************)
JUndef == [t |-> "undefined", s |-> <<>>, n |-> 0, b |-> FALSE]
JStr(s) == [t |-> "string", s |-> s, n |-> 0, b |-> FALSE]
JNum(n) == [t |-> "number", s |-> <<>>, n |-> n, b |-> FALSE]
JBool(b) == [t |-> "boolean", s |-> <<>>, n |-> 0, b |-> b]

\* !v
Falsy(v) ==
    \/ v.t = "undefined"
    \/ v.t = "string" /\ v.s = <<>>
    \/ v.t = "number" /\ v.n = 0
    \/ v.t = "boolean" /\ ~v.b

\* String(v), what RegExp.prototype.test is given (a number prints as digits, a
\* boolean and undefined as letters: one character stands for them)
JsString(v) ==
    CASE v.t = "string" -> v.s
      [] v.t = "number" -> Str(<<"1">>)
      [] v.t = "boolean" -> Str(<<"t">>)
      [] OTHER -> Str(<<"u">>)

(***************************************************************************)
(* bcrypt, as server.js uses it: hash(data, rounds) and compare(data,      *)
(* hash).  Both reject a data argument that is not a string.               *)
(***************************************************************************)
Salts == {"s1"}

bcryptHash(data, salt) ==
    IF data.t # "string"
    THEN [ok |-> FALSE, hash |-> [salt |-> salt, rounds |-> SALT_ROUNDS, secret |-> <<>>]]
    ELSE [ok |-> TRUE, hash |-> [salt |-> salt, rounds |-> SALT_ROUNDS, secret |-> data.s]]

bcryptCompare(data, hash) ==
    IF data.t # "string"
    THEN [ok |-> FALSE, match |-> FALSE]
    ELSE [ok |-> TRUE, match |-> (data.s = hash.secret)]

(***************************************************************************)
(* jsonwebtoken.  A token is its claims and the key its signature was made *)
(* with: "server" for JWT_SECRET, anything else for a key the server does  *)
(* not hold.  A string that is no JWT has kind "garbage"; the empty string *)
(* has kind "empty".                                                       *)
(***************************************************************************)
Jwt(userId, email, iat, exp, sig) ==
    [kind |-> "jwt", userId |-> userId, email |-> email, iat |-> iat,
     exp |-> exp, sig |-> sig]

Garbage == [kind |-> "garbage", userId |-> 0, email |-> <<>>, iat |-> 0,
            exp |-> 0, sig |-> "none"]

EmptyString == [kind |-> "empty", userId |-> 0, email |-> <<>>, iat |-> 0,
                exp |-> 0, sig |-> "none"]

\* no value: undefined
NoToken == [kind |-> "undefined", userId |-> 0, email |-> <<>>, iat |-> 0,
            exp |-> 0, sig |-> "none"]

\* jwt.sign({userId, email}, JWT_SECRET, {expiresIn: JWT_EXPIRES_IN}) at time t
jwtSign(userId, email, t) == Jwt(userId, email, t, t + JWT_EXPIRES_IN, "server")

\* a verify that looks at the expiry before the signature
jwtVerifyExpiryFirst(token, t) ==
    IF token.kind # "jwt"
    THEN [ok |-> FALSE, name |-> "JsonWebTokenError", decoded |-> NoToken]
    ELSE IF t >= token.exp
    THEN [ok |-> FALSE, name |-> "TokenExpiredError", decoded |-> NoToken]
    ELSE IF token.sig # "server"
    THEN [ok |-> FALSE, name |-> "JsonWebTokenError", decoded |-> NoToken]
    ELSE [ok |-> TRUE, name |-> "", decoded |-> token]

\* jwt.verify(token, JWT_SECRET) at time t: the structure, then the signature,
\* then the expiry
jwtVerify(token, t) ==
    IF token.kind # "jwt" \/ token.sig # "server"
    THEN [ok |-> FALSE, name |-> "JsonWebTokenError", decoded |-> NoToken]
    ELSE IF t >= token.exp
    THEN [ok |-> FALSE, name |-> "TokenExpiredError", decoded |-> NoToken]
    ELSE [ok |-> TRUE, name |-> "", decoded |-> token]

(***************************************************************************)
(* Response messages (the source's are Korean sentences).                  *)
(***************************************************************************)
MsgLoginRequired == "login required"
MsgLoginExpired == "login expired, log in again"
MsgInvalidToken == "invalid token"
MsgMissingCredentials == "enter email and password"
MsgBadEmailFormat == "enter a valid email"
MsgShortPassword == "password must be at least 6 characters"
MsgEmailTaken == "email already registered"
MsgServerError == "server error"
MsgBadCredentials == "email or password is wrong"
MsgUserNotFound == "user not found"
MsgEmptyText == "enter the todo text"
MsgNotBoolean == "completed must be true or false"
MsgTodoNotFound == "todo not found"
MsgDeleted == "todo deleted"

(***************************************************************************)
(* The access gate.  A header is absent, or a scheme word followed by the  *)
(* parts split(' ') finds after it.                                        *)
(***************************************************************************)
NoHeader == [present |-> FALSE, scheme |-> "", rest |-> <<>>]
Header(scheme, rest) == [present |-> TRUE, scheme |-> scheme, rest |-> rest]
Bearer(token) == Header("Bearer", <<token>>)

\* authHeader && authHeader.split(' ')[1]
headerToken(hdr) ==
    IF hdr.present /\ Len(hdr.rest) >= 1 THEN hdr.rest[1] ELSE NoToken

\* a gate over a session store that keeps one session per account: a token is
\* turned away once a later one was issued to the same account
authenticateTokenLatestOnly(hdr, t) ==
    LET token == headerToken(hdr)
        v == jwtVerify(token, t)
    IN IF token.kind \in {"undefined", "empty"}
       THEN [next |-> FALSE, user |-> NoToken, status |-> 401, error |-> MsgLoginRequired]
       ELSE IF v.ok /\ ~\E tk \in tokens : tk.userId = token.userId /\ tk.iat > token.iat
       THEN [next |-> TRUE, user |-> v.decoded, status |-> 200, error |-> ""]
       ELSE IF v.name = "TokenExpiredError" \/ v.ok
       THEN [next |-> FALSE, user |-> NoToken, status |-> 401, error |-> MsgLoginExpired]
       ELSE [next |-> FALSE, user |-> NoToken, status |-> 403, error |-> MsgInvalidToken]

\* a gate that calls next() whatever verify answered
authenticateTokenAlwaysNext(hdr, t) ==
    LET token == headerToken(hdr)
        v == jwtVerify(token, t)
    IN IF token.kind \in {"undefined", "empty"}
       THEN [next |-> FALSE, user |-> NoToken, status |-> 401, error |-> MsgLoginRequired]
       ELSE [next |-> TRUE, user |-> IF v.ok THEN v.decoded ELSE token,
             status |-> 200, error |-> ""]

authenticateToken(hdr, t) ==
    LET token == headerToken(hdr)
        v == jwtVerify(token, t)
    IN IF token.kind \in {"undefined", "empty"}
       THEN [next |-> FALSE, user |-> NoToken, status |-> 401, error |-> MsgLoginRequired]
       ELSE IF v.ok
       THEN [next |-> TRUE, user |-> v.decoded, status |-> 200, error |-> ""]
       ELSE IF v.name = "TokenExpiredError"
       THEN [next |-> FALSE, user |-> NoToken, status |-> 401, error |-> MsgLoginExpired]
       ELSE [next |-> FALSE, user |-> NoToken, status |-> 403, error |-> MsgInvalidToken]

(***************************************************************************)
(* Requests and responses.                                                 *)
(***************************************************************************)
\* a request: the Authorization header, the body's fields, the :id segment
Request(hdr, email, password, text, id, completed) ==
    [hdr |-> hdr, email |-> email, password |-> password, text |-> text,
     id |-> id, completed |-> completed]

\* res.status(status).json({error}): nothing else in the body, no statement run
Response(op, req, status, error) ==
    [op |-> op, req |-> req, status |-> status, error |-> error,
     details |-> FALSE, message |-> "", data |-> <<>>, user |-> <<>>,
     token |-> NoToken, caller |-> 0, queries |-> <<>>]

\* the catch blocks' res.status(500).json({error, details: err.message})
ServerError(op, req, caller, queries) ==
    [Response(op, req, 500, MsgServerError) EXCEPT
        !.details = TRUE, !.caller = caller, !.queries = queries]

NoResponse == Response("none", Request(NoHeader, JUndef, JUndef, JUndef, <<>>, JUndef), 0, "")

\* the user object of a register, login or me response
UserView(u) == [id |-> u.id, email |-> u.email, created_at |-> u.created_at]

(***************************************************************************)
(* The store.  Rows of users are [id, email, password_hash, created_at],   *)
(* rows of todos [id, text, completed, user_id, created_at].               *)
(***************************************************************************)
DigitValue(c) ==
    CASE c = "0" -> 0 [] c = "1" -> 1 [] c = "2" -> 2 [] c = "3" -> 3
      [] c = "4" -> 4 [] c = "5" -> 5 [] c = "6" -> 6 [] c = "7" -> 7
      [] c = "8" -> 8 [] c = "9" -> 9 [] OTHER -> -1

RECURSIVE DigitsValue(_, _)
DigitsValue(cs, acc) ==
    IF cs = <<>> THEN acc ELSE DigitsValue(Tail(cs), 10 * acc + DigitValue(Head(cs)))

\* the store's cast of a text parameter to BIGINT: digits, white space around
\* them allowed; anything else is error 22P02
toBigint(s) ==
    LET cs == Expand(trim(s))
    IN IF cs # <<>> /\ \A i \in 1..Len(cs) : DigitValue(cs[i]) >= 0
       THEN [ok |-> TRUE, v |-> DigitsValue(cs, 0)]
       ELSE [ok |-> FALSE, v |-> 0]

\* the rows oldest first
OrderByCreatedAtAsc(rows) ==
    {s \in [1..Cardinality(rows) -> rows] :
        /\ \A i, j \in DOMAIN s : i # j => s[i] # s[j]
        /\ \A i, j \in DOMAIN s : i < j => s[i].created_at <= s[j].created_at}

\* the rows of a set in an order ORDER BY created_at DESC allows
OrderByCreatedAtDesc(rows) ==
    {s \in [1..Cardinality(rows) -> rows] :
        /\ \A i, j \in DOMAIN s : i # j => s[i] # s[j]
        /\ \A i, j \in DOMAIN s : i < j => s[i].created_at >= s[j].created_at}

\* the email trimmed but in the case the client wrote it
normalizeEmailKeepCase(s) == trim(s)

\* email.toLowerCase().trim()
normalizeEmail(s) == trim(toLowerCase(s))

\* INSERT INTO users (email, password_hash) VALUES ($1, $2): the row
NewUser(id, email, hash, t) ==
    [id |-> id, email |-> email, password_hash |-> hash, created_at |-> t]

\* SELECT * FROM users WHERE email = $1
SelectUserByEmail(email) == {u \in users : u.email = email}

\* SELECT id, email, created_at FROM users WHERE id = $1
SelectUserById(id) == {u \in users : u.id = id}

\* SELECT * FROM todos WHERE user_id = $1
SelectTodosWhere(r, userId) == r.user_id = userId

\* an insert that numbers the row by the count of rows, not by the sequence
NewTodoCountId(id, text, userId, t) ==
    [id |-> Cardinality(todos) + 1, text |-> text, completed |-> FALSE,
     user_id |-> userId, created_at |-> t]

\* an insert of the text with its outer white space off
NewTodoTrimmed(id, text, userId, t) ==
    [id |-> id, text |-> trim(text), completed |-> FALSE, user_id |-> userId,
     created_at |-> t]

\* INSERT INTO todos (text, completed, user_id, created_at)
\*   VALUES ($1, false, $3, NOW()): the row
NewTodo(id, text, userId, t) ==
    [id |-> id, text |-> text, completed |-> FALSE, user_id |-> userId,
     created_at |-> t]

\* UPDATE todos ... WHERE id = $2 AND user_id = $3
UpdateWhere(r, id, userId) == r.id = id /\ r.user_id = userId

\* an update that also stamps the row with the time of the change
UpdateSetTouch(r, completed) ==
    [r EXCEPT !.completed = completed, !.created_at = dbNow]

\* an update that flips the flag whatever value was sent
UpdateSetToggle(r, completed) == [r EXCEPT !.completed = ~r.completed]

\* UPDATE todos SET completed = $1
UpdateSet(r, completed) == [r EXCEPT !.completed = completed]

\* the DELETE's predicate without its owner conjunct
DeleteWhereIdOnly(r, id, userId) == r.id = id

\* DELETE FROM todos WHERE id = $1 AND user_id = $2
DeleteWhere(r, id, userId) == r.id = id /\ r.user_id = userId

(***************************************************************************)
(* The route handlers.  Each gives the store and the token set it leaves   *)
(* and the response it sends.                                              *)
(***************************************************************************)
Outcome(r) ==
    [users |-> users, usersSeq |-> usersSeq, todos |-> todos,
     todosSeq |-> todosSeq, tokens |-> tokens, resp |-> r]

\* a payload that takes the id from the sequence's value before the insert
tokenForSeq(user, t) == jwtSign(usersSeq, user.email, t)

\* the payload of the tokens register and login sign
tokenFor(user, t) == jwtSign(user.id, user.email, t)

\* app.post('/api/auth/register')
register(req, salt) ==
    LET email == req.email
        password == req.password
        h == bcryptHash(password, salt)
        norm == normalizeEmail(email.s)
        user == NewUser(usersSeq + 1, norm, h.hash, dbNow)
        token == tokenFor(user, now)
        q == <<"INSERT users">>
    IN IF Falsy(email) \/ Falsy(password)
       THEN Outcome(Response("register", req, 400, MsgMissingCredentials))
       ELSE IF ~emailRegexTest(JsString(email))
       THEN Outcome(Response("register", req, 400, MsgBadEmailFormat))
       ELSE IF password.t = "string" /\ StrLen(password.s) < MinPasswordLen
       THEN Outcome(Response("register", req, 400, MsgShortPassword))
       ELSE IF ~h.ok \/ email.t # "string"
       THEN Outcome(ServerError("register", req, 0, <<>>))
       ELSE IF \E u \in users : u.email = norm
       THEN \* UNIQUE violation 23505; the sequence value is spent
            [Outcome([Response("register", req, 409, MsgEmailTaken) EXCEPT !.queries = q])
                EXCEPT !.usersSeq = usersSeq + 1]
       ELSE [Outcome([Response("register", req, 200, "") EXCEPT
                        !.user = <<UserView(user)>>, !.token = token, !.queries = q])
                EXCEPT !.users = users \cup {user},
                       !.usersSeq = usersSeq + 1,
                       !.tokens = tokens \cup {token}]

\* app.post('/api/auth/login')
login(req) ==
    LET email == req.email
        password == req.password
        rows == SelectUserByEmail(normalizeEmail(email.s))
        user == CHOOSE u \in rows : TRUE
        c == bcryptCompare(password, user.password_hash)
        token == tokenFor(user, now)
        q == <<"SELECT users">>
    IN IF Falsy(email) \/ Falsy(password)
       THEN Outcome(Response("login", req, 400, MsgMissingCredentials))
       ELSE IF email.t # "string"
       THEN Outcome(ServerError("login", req, 0, <<>>))
       ELSE IF rows = {}
       THEN Outcome([Response("login", req, 401, MsgBadCredentials) EXCEPT !.queries = q])
       ELSE IF ~c.ok
       THEN Outcome(ServerError("login", req, 0, q))
       ELSE IF ~c.match
       THEN Outcome([Response("login", req, 401, MsgBadCredentials) EXCEPT !.queries = q])
       ELSE [Outcome([Response("login", req, 200, "") EXCEPT
                        !.user = <<UserView(user)>>, !.token = token, !.queries = q])
                EXCEPT !.tokens = tokens \cup {token}]

\* app.get('/api/auth/me', authenticateToken, ...)
me(req) ==
    LET g == authenticateToken(req.hdr, now)
        rows == SelectUserById(g.user.userId)
        q == <<"SELECT users">>
    IN IF ~g.next
       THEN Outcome(Response("me", req, g.status, g.error))
       ELSE IF rows = {}
       THEN Outcome([Response("me", req, 404, MsgUserNotFound) EXCEPT
                        !.caller = g.user.userId, !.queries = q])
       ELSE Outcome([Response("me", req, 200, "") EXCEPT
                        !.user = <<UserView(CHOOSE u \in rows : TRUE)>>,
                        !.caller = g.user.userId, !.queries = q])

\* app.get('/api/todos', authenticateToken, ...); data is the order the store
\* returned the rows in
getTodos(req, data) ==
    LET g == authenticateToken(req.hdr, now)
    IN IF ~g.next
       THEN Outcome(Response("list", req, g.status, g.error))
       ELSE Outcome([Response("list", req, 200, "") EXCEPT
                        !.data = data, !.caller = g.user.userId,
                        !.queries = <<"SELECT todos">>])

\* the orders the store may return the caller's rows in
getTodosRows(req) ==
    LET g == authenticateToken(req.hdr, now)
    IN IF ~g.next THEN {<<>>}
       ELSE OrderByCreatedAtDesc({r \in todos : SelectTodosWhere(r, g.user.userId)})

\* app.post('/api/todos', authenticateToken, ...)
createTodo(req) ==
    LET g == authenticateToken(req.hdr, now)
        text == req.text
        row == NewTodo(todosSeq + 1, text.s, g.user.userId, dbNow)
    IN IF ~g.next
       THEN Outcome(Response("create", req, g.status, g.error))
       ELSE IF Falsy(text)
       THEN Outcome([Response("create", req, 400, MsgEmptyText) EXCEPT
                        !.caller = g.user.userId])
       ELSE IF text.t # "string"
       THEN \* text.trim is not a function
            Outcome(ServerError("create", req, g.user.userId, <<>>))
       ELSE IF trim(text.s) = <<>>
       THEN Outcome([Response("create", req, 400, MsgEmptyText) EXCEPT
                        !.caller = g.user.userId])
       ELSE [Outcome([Response("create", req, 200, "") EXCEPT
                        !.data = <<row>>, !.caller = g.user.userId,
                        !.queries = <<"INSERT todos">>])
                EXCEPT !.todos = todos \cup {row}, !.todosSeq = todosSeq + 1]

\* a PATCH that runs its statement first and looks at the type of completed
\* once a row has matched
patchTodoStatementFirst(req) ==
    LET g == authenticateToken(req.hdr, now)
        completed == req.completed
        id == toBigint(req.id)
        hit == {r \in todos : UpdateWhere(r, id.v, g.user.userId)}
        new == {UpdateSet(r, completed.b) : r \in hit}
        q == <<"UPDATE todos">>
    IN IF ~g.next
       THEN Outcome(Response("patch", req, g.status, g.error))
       ELSE IF ~id.ok
       THEN Outcome(ServerError("patch", req, g.user.userId, q))
       ELSE IF hit = {}
       THEN Outcome([Response("patch", req, 404, MsgTodoNotFound) EXCEPT
                        !.caller = g.user.userId, !.queries = q])
       ELSE IF completed.t # "boolean"
       THEN Outcome([Response("patch", req, 400, MsgNotBoolean) EXCEPT
                        !.caller = g.user.userId, !.queries = q])
       ELSE [Outcome([Response("patch", req, 200, "") EXCEPT
                        !.data = <<CHOOSE r \in new : TRUE>>,
                        !.caller = g.user.userId, !.queries = q])
                EXCEPT !.todos = (todos \ hit) \cup new]

\* app.patch('/api/todos/:id', authenticateToken, ...)
patchTodo(req) ==
    LET g == authenticateToken(req.hdr, now)
        completed == req.completed
        id == toBigint(req.id)
        hit == {r \in todos : UpdateWhere(r, id.v, g.user.userId)}
        new == {UpdateSet(r, completed.b) : r \in hit}
        q == <<"UPDATE todos">>
    IN IF ~g.next
       THEN Outcome(Response("patch", req, g.status, g.error))
       ELSE IF completed.t # "boolean"
       THEN Outcome([Response("patch", req, 400, MsgNotBoolean) EXCEPT
                        !.caller = g.user.userId])
       ELSE IF ~id.ok
       THEN \* the store refuses the parameter: invalid input syntax for bigint
            Outcome(ServerError("patch", req, g.user.userId, q))
       ELSE IF hit = {}
       THEN Outcome([Response("patch", req, 404, MsgTodoNotFound) EXCEPT
                        !.caller = g.user.userId, !.queries = q])
       ELSE [Outcome([Response("patch", req, 200, "") EXCEPT
                        !.data = <<CHOOSE r \in new : TRUE>>,
                        !.caller = g.user.userId, !.queries = q])
                EXCEPT !.todos = (todos \ hit) \cup new]

\* app.delete('/api/todos/:id', authenticateToken, ...)
deleteTodo(req) ==
    LET g == authenticateToken(req.hdr, now)
        id == toBigint(req.id)
        hit == {r \in todos : DeleteWhere(r, id.v, g.user.userId)}
        q == <<"DELETE todos">>
    IN IF ~g.next
       THEN Outcome(Response("delete", req, g.status, g.error))
       ELSE IF ~id.ok
       THEN Outcome(ServerError("delete", req, g.user.userId, q))
       ELSE IF hit = {}
       THEN Outcome([Response("delete", req, 404, MsgTodoNotFound) EXCEPT
                        !.caller = g.user.userId, !.queries = q])
       ELSE [Outcome([Response("delete", req, 200, "") EXCEPT
                        !.message = MsgDeleted, !.caller = g.user.userId,
                        !.queries = q])
                EXCEPT !.todos = todos \ hit]

(***************************************************************************)
(* What clients send.                                                      *)
(***************************************************************************)
EmailA == Str(<<"a", "@", "x", ".", "c">>)
EmailB == Str(<<"b", "@", "x", ".", "c">>)
EmailAUpper == Str(<<"A", "@", "X", ".", "c">>)
EmailAPadded == Str(<<" ", "a", "@", "x", ".", "c", " ">>)
EmailNoAt == Str(<<"a", "x", ".", "c">>)

Secret1 == Str(<<"s", "e", "c", "r", "e", "t", "1">>)
Short5 == Str(<<"1", "2", "3", "4", "5">>)

Emails ==
    {JStr(EmailA), JStr(EmailAUpper), JStr(EmailAPadded), JStr(EmailNoAt),
     JUndef, JNum(1)}

Passwords == {JStr(Secret1), JStr(Short5), JUndef, JNum(123456)}

TextPadded == Str(<<" ", "a", " ">>)

\* texts at the length limit and past it, empty, of white space only, absent,
\* and a number
Texts ==
    {JStr(Rep("a", MaxTextLen)), JStr(Rep("a", MaxTextLen + 1)), JStr(<<>>),
     JStr(Rep(" ", 3)), JUndef, JNum(5)}

Digits == <<"1", "2", "3", "4", "5", "6", "7", "8", "9">>

\* the :id segments: the ids 1..n, and a segment that is no number
IdsTo(n) == {Str(<<Digits[k]>>) : k \in 1..n} \cup {Str(<<"x">>)}

\* SpecTodos: the ids the sequence can have handed out, and the next one
Ids == IdsTo(MaxTodoId + 1)

Completeds == {JBool(TRUE), JBool(FALSE), JStr(Str(<<"t">>)), JUndef}

\* a token of the claims of tk signed with a key that is not the server's
Forged(tk) == [tk EXCEPT !.sig = "attacker"]

\* the tokens a client can present: those the server issued, the same claims
\* and the claims of any account under another key, with an expiry ahead or
\* past, and strings that are no token
PresentableTokens ==
    tokens
      \cup {Forged(tk) : tk \in tokens}
      \cup {Jwt(u.id, u.email, 0, 0, "attacker") : u \in users}
      \cup {Garbage, EmptyString}

Headers ==
    {NoHeader, Header("Bearer", <<>>)}
      \cup {Bearer(tk) : tk \in PresentableTokens}

AuthRequest(e, p) == Request(NoHeader, e, p, JUndef, <<>>, JUndef)
TodoRequest(h, text, id, completed) == Request(h, JUndef, JUndef, text, id, completed)

(***************************************************************************)
(* The state machine.                                                      *)
(***************************************************************************)
Init ==
    /\ users = {}
    /\ todos = {}
    /\ usersSeq = 0
    /\ todosSeq = 0
    /\ dbNow = 0
    /\ now = 0
    /\ tokens = {}
    /\ resp = NoResponse

\* a handler's outcome becomes the state
Apply(o) ==
    /\ users' = o.users
    /\ usersSeq' = o.usersSeq
    /\ todos' = o.todos
    /\ todosSeq' = o.todosSeq
    /\ tokens' = o.tokens
    /\ resp' = o.resp
    /\ UNCHANGED <<dbNow, now>>

\* the routes, each with the sets its request is drawn from
RegisterOf(E, P, S) == \E e \in E, p \in P, salt \in S :
    Apply(register(AuthRequest(e, p), salt))

LoginOf(E, P) == \E e \in E, p \in P :
    Apply(login(AuthRequest(e, p)))

MeOf(H) == \E h \in H :
    Apply(me(TodoRequest(h, JUndef, <<>>, JUndef)))

GetTodosOf(H) == \E h \in H :
    LET req == TodoRequest(h, JUndef, <<>>, JUndef)
    IN \E data \in getTodosRows(req) : Apply(getTodos(req, data))

CreateTodoOf(H, T) == \E h \in H, text \in T :
    Apply(createTodo(TodoRequest(h, text, <<>>, JUndef)))

PatchTodoOf(H, I, C) == \E h \in H, id \in I, c \in C :
    Apply(patchTodo(TodoRequest(h, JUndef, id, c)))

DeleteTodoOf(H, I) == \E h \in H, id \in I :
    Apply(deleteTodo(TodoRequest(h, JUndef, id, JUndef)))

\* the store's clock advances
DbTick ==
    /\ dbNow < MaxDbTime
    /\ dbNow' = dbNow + 1
    /\ UNCHANGED <<users, todos, usersSeq, todosSeq, now, tokens, resp>>

\* the server's clock advances
Tick ==
    /\ now < JWT_EXPIRES_IN + MaxLate
    /\ now' = now + 1
    /\ UNCHANGED <<users, todos, usersSeq, todosSeq, dbNow, tokens, resp>>

\* callers that hold a token the server issued
Issued == {Bearer(tk) : tk \in tokens}

(***************************************************************************)
(* Spec: the server from its start on an empty store.  Accounts, tokens,   *)
(* the server's clock and every kind of Authorization header; the item     *)
(* routes with one body each.                                              *)
(***************************************************************************)
\* the sequences and the tokens issued stay within the bounds, and every
\* token is issued early enough to expire before the clock stops
Within ==
    /\ usersSeq' <= MaxGateUserId
    /\ todosSeq' <= MaxGateTodoId
    /\ Cardinality(tokens') <= MaxTokens
    /\ \A tk \in tokens' : tk.iat <= MaxLate

Register == RegisterOf({JStr(EmailA), JStr(EmailB)}, {JStr(Secret1)}, Salts) /\ Within
Me == MeOf(Headers) /\ Within
GetTodos == GetTodosOf(Headers) /\ Within
CreateTodo == CreateTodoOf(Headers, {JStr(TextPadded)}) /\ Within
PatchTodo == PatchTodoOf(Headers, {Str(<<"1">>)}, {JBool(TRUE)}) /\ Within
DeleteTodo == DeleteTodoOf(Headers, {Str(<<"1">>)}) /\ Within

Next ==
    \/ Register
    \/ Me
    \/ GetTodos
    \/ CreateTodo
    \/ PatchTodo
    \/ DeleteTodo
    \/ Tick

Spec == Init /\ [][Next]_vars

(***************************************************************************)
(* SpecTodos: the item routes, from the state SpecAccounts reaches when    *)
(* a@x.c and b@x.c have registered one after the other.  Both callers,     *)
(* every :id, the store's clock.                                           *)
(***************************************************************************)
UserA == NewUser(1, EmailA, bcryptHash(JStr(Secret1), "s1").hash, 0)
UserB == NewUser(2, EmailB, bcryptHash(JStr(Secret1), "s1").hash, 0)
TokenA == tokenFor(UserA, 0)
TokenB == tokenFor(UserB, 0)

InitTodos ==
    /\ users = {UserA, UserB}
    /\ usersSeq = 2
    /\ todos = {}
    /\ todosSeq = 0
    /\ dbNow = 0
    /\ now = 0
    /\ tokens = {TokenA, TokenB}
    /\ resp = [Response("register", AuthRequest(JStr(EmailB), JStr(Secret1)), 200, "")
                 EXCEPT !.user = <<UserView(UserB)>>, !.token = TokenB,
                        !.queries = <<"INSERT users">>]

WithinTodos == todosSeq' <= MaxTodoId

TodosList == GetTodosOf(Issued) /\ WithinTodos
TodosCreate == CreateTodoOf(Issued, {JStr(TextPadded), JStr(<<>>)}) /\ WithinTodos
TodosPatch == PatchTodoOf(Issued, Ids, {JBool(TRUE), JBool(FALSE)}) /\ WithinTodos
TodosDelete == DeleteTodoOf(Issued, Ids) /\ WithinTodos

NextTodos ==
    \/ TodosList
    \/ TodosCreate
    \/ TodosPatch
    \/ TodosDelete
    \/ DbTick

SpecTodos == InitTodos /\ [][NextTodos]_vars

(***************************************************************************)
(* SpecInput: every route with bodies of every type, from the empty store. *)
(* Both clocks stand still.                                                *)
(***************************************************************************)
WithinInput ==
    /\ usersSeq' <= MaxUserId
    /\ todosSeq' <= MaxInputTodoId

InputRegister == RegisterOf(Emails, Passwords, Salts) /\ WithinInput
InputLogin == LoginOf(Emails, Passwords) /\ WithinInput
InputList == GetTodosOf(Issued) /\ WithinInput
InputCreate == CreateTodoOf(Issued, Texts) /\ WithinInput
InputPatch == PatchTodoOf(Issued, IdsTo(MaxInputTodoId), Completeds) /\ WithinInput
InputDelete == DeleteTodoOf(Issued, IdsTo(MaxInputTodoId)) /\ WithinInput

NextInput ==
    \/ InputRegister
    \/ InputLogin
    \/ InputList
    \/ InputCreate
    \/ InputPatch
    \/ InputDelete

SpecInput == Init /\ [][NextInput]_vars

(***************************************************************************)
(* SpecAccounts: registrations and logins alone, for two identities in     *)
(* every spelling and with every kind of password.                         *)
(***************************************************************************)
AccountEmails == Emails \cup {JStr(EmailB)}

WithinAccounts == usersSeq' <= MaxUserId

AccountsRegister == RegisterOf(AccountEmails, Passwords, Salts) /\ WithinAccounts
AccountsLogin == LoginOf(AccountEmails, Passwords) /\ WithinAccounts

NextAccounts ==
    \/ AccountsRegister
    \/ AccountsLogin

SpecAccounts == Init /\ [][NextAccounts]_vars

(***************************************************************************)
(* SpecSession: one account over the life of its tokens: registration, a   *)
(* later login with the right or a wrong password, the item routes with    *)
(* any token issued, the server's clock up to the expiry of the last one.  *)
(***************************************************************************)
WithinSession ==
    /\ usersSeq' <= MaxSessionUserId
    /\ todosSeq' <= MaxSessionTodoId
    /\ Cardinality(tokens') <= MaxSessionTokens
    /\ \A tk \in tokens' : tk.iat <= MaxLoginTime

SessionRegister == RegisterOf({JStr(EmailA)}, {JStr(Secret1)}, Salts) /\ WithinSession
SessionLogin == LoginOf({JStr(EmailA)}, {JStr(Secret1), JStr(Short5)}) /\ WithinSession
SessionList == GetTodosOf(Issued) /\ WithinSession
SessionCreate == CreateTodoOf(Issued, {JStr(TextPadded)}) /\ WithinSession
SessionPatch ==
    PatchTodoOf(Issued, IdsTo(MaxSessionTodoId), {JBool(TRUE), JBool(FALSE)})
       /\ WithinSession
SessionDelete == DeleteTodoOf(Issued, IdsTo(MaxSessionTodoId)) /\ WithinSession

SessionTick ==
    /\ now < JWT_EXPIRES_IN + MaxLoginTime
    /\ now' = now + 1
    /\ UNCHANGED <<users, todos, usersSeq, todosSeq, dbNow, tokens, resp>>

NextSession ==
    \/ SessionRegister
    \/ SessionLogin
    \/ SessionList
    \/ SessionCreate
    \/ SessionPatch
    \/ SessionDelete
    \/ SessionTick

SpecSession == Init /\ [][NextSession]_vars

(***************************************************************************)
(* SpecItems: every route of the server over the life of an account's      *)
(* items, from the empty store, with the store's clock.                    *)
(***************************************************************************)
WithinItems ==
    /\ usersSeq' <= MaxSessionUserId
    /\ todosSeq' <= MaxTodoId

ItemsRegister == RegisterOf({JStr(EmailA)}, {JStr(Secret1)}, Salts) /\ WithinItems
ItemsLogin == LoginOf({JStr(EmailA)}, {JStr(Secret1), JStr(Short5)}) /\ WithinItems
ItemsMe == MeOf(Issued) /\ WithinItems
ItemsList == GetTodosOf(Issued) /\ WithinItems
ItemsCreate == CreateTodoOf(Issued, {JStr(TextPadded)}) /\ WithinItems
ItemsPatch ==
    PatchTodoOf(Issued, IdsTo(MaxTodoId), {JBool(TRUE), JBool(FALSE)}) /\ WithinItems
ItemsDelete == DeleteTodoOf(Issued, IdsTo(MaxTodoId)) /\ WithinItems

NextItems ==
    \/ ItemsRegister
    \/ ItemsLogin
    \/ ItemsMe
    \/ ItemsList
    \/ ItemsCreate
    \/ ItemsPatch
    \/ ItemsDelete
    \/ DbTick

SpecItems == Init /\ [][NextItems]_vars

(***************************************************************************)
(* Properties.                                                             *)
(***************************************************************************)
\* a step that serves a request: neither clock moves, and resp' is the
\* response to the request served
Served == now' = now /\ dbNow' = dbNow

GatedOps == {"me", "list", "create", "patch", "delete"}

\* the token a request presents, if any: the part after the scheme word
Presented(req) ==
    IF req.hdr.present /\ Len(req.hdr.rest) >= 1 THEN req.hdr.rest[1] ELSE NoToken

\* the row a :id segment names, whoever owns it
Named(req, row) ==
    /\ toBigint(req.id).ok
    /\ row.id = toBigint(req.id).v

\* the rows a response carries
Returned(r) == {r.data[i] : i \in DOMAIN r.data}

\* C1: a request served for caller B never returns, changes or deletes a row
\* owned by another account: the row is in no response to B, PATCH and DELETE
\* on its id answer 404, and the row is in the store after the request as before.
C1_Isolation ==
    [][Served /\ resp'.caller # 0 =>
         \A row \in todos :
            row.user_id # resp'.caller =>
               /\ row \in todos'
               /\ row \notin Returned(resp')
               /\ resp'.op \in {"patch", "delete"} /\ Named(resp'.req, row)
                     => resp'.status = 404]_vars

\* a PATCH or DELETE by one account on the id of a row of another account was
\* answered 404
C1_Witness ==
    /\ resp.op \in {"patch", "delete"}
    /\ resp.status = 404
    /\ \E row \in todos : Named(resp.req, row) /\ row.user_id # resp.caller

\* the requests the gate is to reject: no token, a token the server did not
\* issue, or one it issued whose expiry has passed
NoValidToken(req, t) ==
    \/ Presented(req).kind \in {"undefined", "empty"}
    \/ Presented(req) \notin tokens
    \/ t >= Presented(req).exp

\* C2: on me, list, create, patch and delete, a request without a valid token
\* is answered by the gate: it runs no statement, leaves the store, the
\* sequences and the issued tokens as they were, and binds no caller.
C2_GateFirst ==
    [][Served /\ resp'.op \in GatedOps /\ NoValidToken(resp'.req, now) =>
         /\ resp'.queries = <<>>
         /\ resp'.caller = 0
         /\ resp'.status \in {401, 403}
         /\ resp'.data = <<>> /\ resp'.user = <<>>
         /\ UNCHANGED <<users, todos, usersSeq, todosSeq, tokens>>]_vars

\* a DELETE by the owner of an existing row, naming that row, was turned away
\* because the token had expired, and the row is still there
C2_Witness ==
    /\ resp.op = "delete"
    /\ resp.error = MsgLoginExpired
    /\ resp.queries = <<>>
    /\ \E row \in todos :
          Named(resp.req, row) /\ row.user_id = Presented(resp.req).userId

\* C3: the gate answers each request in exactly one way: no token, 401; a
\* token the server signed and not expired, the handler runs with the token's
\* claims as caller; a token the server signed and expired, 401 with the
\* re-login message; any other token, 403, whatever expiry it carries.
C3_GateOutcomes ==
    [][Served /\ resp'.op \in GatedOps =>
         LET tk == Presented(resp'.req)
         IN /\ tk.kind \in {"undefined", "empty"} =>
                  resp'.status = 401 /\ resp'.error = MsgLoginRequired
            /\ tk \in tokens /\ now < tk.exp =>
                  /\ resp'.caller = tk.userId
                  /\ resp'.status \notin {401, 403}
                  /\ resp'.queries # <<>>
            /\ tk \in tokens /\ now >= tk.exp =>
                  /\ resp'.status = 401
                  /\ resp'.error = MsgLoginExpired
                  /\ resp'.error # MsgLoginRequired
            /\ tk.kind \notin {"undefined", "empty"} /\ tk \notin tokens =>
                  resp'.status = 403 /\ resp'.error = MsgInvalidToken]_vars

\* a token under a foreign key whose expiry has passed was answered 403
C3_Witness ==
    /\ resp.op \in GatedOps
    /\ Presented(resp.req).kind = "jwt"
    /\ Presented(resp.req).sig # "server"
    /\ now >= Presented(resp.req).exp
    /\ resp.status = 403

\* an identity as accounts are compared: case folded, outer white space off
Fold(s) == trim(toLowerCase(s))

UniqueIdentities(U) ==
    \A u, v \in U : Fold(u.email) = Fold(v.email) => u = v

\* a registration body the handler's checks let through to the hash and the
\* INSERT: a string email of the form local@domain.tld without white space
\* and a string password of at least MinPasswordLen characters
ValidRegistration(req) ==
    /\ req.email.t = "string" /\ req.password.t = "string"
    /\ emailRegexTest(req.email.s)
    /\ StrLen(req.password.s) >= MinPasswordLen

\* the accounts whose identity a string email names once folded
Holders(req) ==
    IF req.email.t = "string"
    THEN {u \in users : Fold(u.email) = Fold(req.email.s)}
    ELSE {}

\* C4: a registration that passes the handler's input checks and names,
\* case folded, the identity of an existing account is answered 409; no
\* registration of any kind adds a row for an identity that exists or changes
\* or removes an existing row; and no two accounts ever have the same
\* normalized identity.
C4_UniqueIdentity ==
    [][Served /\ resp'.op = "register" =>
         /\ ValidRegistration(resp'.req) /\ Holders(resp'.req) # {}
               => resp'.status = 409
         /\ Holders(resp'.req) # {} => users' = users
         /\ users \subseteq users'
         /\ UniqueIdentities(users')]_vars

\* the identity of an existing account, written in another case, was refused
C4_Witness ==
    /\ resp.op = "register"
    /\ resp.status = 409
    /\ resp.req.email = JStr(EmailAUpper)
    /\ \E u \in users : u.email = EmailA

\* C4 as stated: every registration whose identity, folded and trimmed, is
\* that of an existing account is answered 409 and adds or changes no row.
C4_Original ==
    [][Served /\ resp'.op = "register" /\ Holders(resp'.req) # {} =>
         resp'.status = 409 /\ users' = users]_vars

\* C5 as stated: a login with email and password present that fails because
\* no account has the identity, or because the password is not the account's,
\* is answered 401 with the one message, the same in both cases.
C5_UniformFailure ==
    [][Served /\ resp'.op = "login"
          /\ ~Falsy(resp'.req.email) /\ ~Falsy(resp'.req.password)
          /\ resp'.req.email.t = "string"
          /\ \/ Holders(resp'.req) = {}
             \/ \E u \in Holders(resp'.req) :
                   JStr(u.password_hash.secret) # resp'.req.password
       => /\ resp'.status = 401
          /\ resp'.error = MsgBadCredentials
          /\ ~resp'.details]_vars

\* C6: a successful registration answers with the account it created, the
\* email normalized, and a token whose claims are that account's id and
\* email; GET /auth/me with an issued, unexpired token of an existing account
\* answers 200 with that account's id and email.
C6_TokenNamesAccount ==
    [][Served =>
         /\ resp'.op = "register" /\ resp'.status = 200 =>
               \E u \in users' \ users :
                  /\ users' = users \cup {u}
                  /\ u.email = Fold(resp'.req.email.s)
                  /\ resp'.user = <<UserView(u)>>
                  /\ resp'.token.userId = u.id
                  /\ resp'.token.email = u.email
                  /\ resp'.token \in tokens'
         /\ resp'.op = "me" /\ Presented(resp'.req) \in tokens
               /\ now < Presented(resp'.req).exp =>
               \A u \in users :
                  u.id = Presented(resp'.req).userId =>
                     /\ resp'.status = 200
                     /\ resp'.user = <<UserView(u)>>
                     /\ u.email = Presented(resp'.req).email]_vars

\* the token of a registration, on the last day before its expiry, was
\* answered by /auth/me with the account registered
C6_Witness ==
    /\ resp.op = "me"
    /\ resp.status = 200
    /\ now = JWT_EXPIRES_IN - 1
    /\ Presented(resp.req) \in tokens
    /\ \E u \in users :
          u.id = Presented(resp.req).userId /\ resp.user = <<UserView(u)>>

\* C7: a create that is accepted stores and returns one row with the text
\* exactly as sent, completed false, the caller as owner, the next id of the
\* sequence and the store's time; a list by the same caller that follows the
\* create returns that same row.
C7_CreateThenList ==
    [][Served =>
         /\ resp'.op = "create" /\ resp'.status = 200 =>
               /\ Len(resp'.data) = 1
               /\ resp'.data[1].text = resp'.req.text.s
               /\ resp'.data[1].completed = FALSE
               /\ resp'.data[1].user_id = resp'.caller
               /\ resp'.data[1].created_at = dbNow
               /\ \A row \in todos : row.id < resp'.data[1].id
               /\ todos' = todos \cup {resp'.data[1]}
         /\ resp.op = "create" /\ resp.status = 200
               /\ resp'.op = "list" /\ resp'.caller = resp.caller =>
               resp.data[1] \in Returned(resp')]_vars

\* a list returned a row whose text keeps its outer white space
C7_Witness ==
    /\ resp.op = "list"
    /\ \E row \in Returned(resp) :
          /\ row.text = TextPadded
          /\ row.text # trim(row.text)
          /\ row.user_id = resp.caller
          /\ ~row.completed

\* C8 as stated: a text of exactly MaxTextLen characters is accepted, a longer
\* one is rejected with 400, an empty one or one of white space only is
\* rejected with 400, and a rejected create stores nothing.
C8_TextBounds ==
    [][Served /\ resp'.op = "create" /\ resp'.caller # 0
          /\ resp'.req.text.t = "string" =>
         LET text == resp'.req.text.s
         IN /\ StrLen(text) = MaxTextLen /\ trim(text) # <<>> =>
                  resp'.status = 200 /\ resp'.data[1] \in todos'
            /\ StrLen(text) > MaxTextLen =>
                  resp'.status = 400 /\ todos' = todos
            /\ trim(text) = <<>> =>
                  resp'.status = 400 /\ todos' = todos]_vars

\* C9 as stated: a failure response carries its error message and no
\* exception text.
C9_MessageOnly == resp.status >= 400 => ~resp.details

\* the lists ordered by creation time, newest first
NewestFirst(rows) ==
    {s \in [1..Cardinality(rows) -> rows] :
        /\ {s[i] : i \in DOMAIN s} = rows
        /\ \A i \in DOMAIN s : \A j \in DOMAIN s :
              i < j => s[i].created_at >= s[j].created_at}

OwnedBy(userId, store) == {row \in store : row.user_id = userId}

Pos(s, id) == CHOOSE i \in DOMAIN s : s[i].id = id

\* C10: a list returns each row of the caller once and no other row, newest
\* first, rows of the same creation time in either order; a PATCH changes
\* neither the creation time of its row nor which rows the caller has, so
\* the row stays on the same side of every row created at another time.
C10_ListOrder ==
    [][Served =>
         /\ resp'.op = "list" /\ resp'.status = 200 =>
               resp'.data \in NewestFirst(OwnedBy(resp'.caller, todos))
         /\ resp'.op = "patch" /\ resp'.status = 200 =>
               LET x == resp'.data[1]
                   before == OwnedBy(resp'.caller, todos)
                   after == OwnedBy(resp'.caller, todos')
               IN /\ {row.id : row \in after} = {row.id : row \in before}
                  /\ \A s1 \in NewestFirst(before), s2 \in NewestFirst(after) :
                        \A y \in after :
                           y.created_at # x.created_at =>
                              (Pos(s1, x.id) < Pos(s1, y.id)
                                 <=> Pos(s2, x.id) < Pos(s2, y.id))]_vars

\* a list of two rows created at different times, the older one patched to
\* completed and still second
C10_Witness ==
    /\ resp.op = "list"
    /\ Len(resp.data) = 2
    /\ resp.data[1].created_at > resp.data[2].created_at
    /\ resp.data[2].completed /\ ~resp.data[1].completed

\* C10 as stated: a list returns the caller's rows, all and only, newest
\* first, and a PATCH leaves its row at the position it had.
C10_Original ==
    [][Served =>
         /\ resp'.op = "list" /\ resp'.status = 200 =>
               resp'.data \in NewestFirst(OwnedBy(resp'.caller, todos))
         /\ resp'.op = "patch" /\ resp'.status = 200 =>
               \A s1 \in NewestFirst(OwnedBy(resp'.caller, todos)) :
                  \A s2 \in NewestFirst(OwnedBy(resp'.caller, todos')) :
                     Pos(s1, resp'.data[1].id) = Pos(s2, resp'.data[1].id)]_vars

\* C11: after a PATCH that succeeded, the same PATCH (same token, id and
\* value) sent again succeeds, returns the same row as the first, and leaves
\* the store, with the row's flag, as the first left it.
C11_PatchTwice ==
    resp.op = "patch" /\ resp.status = 200 =>
       /\ patchTodo(resp.req).resp.status = 200
       /\ patchTodo(resp.req).resp.data = resp.data
       /\ patchTodo(resp.req).todos = todos
       /\ \E row \in todos :
             /\ row = resp.data[1]
             /\ row.completed = resp.req.completed.b

\* a PATCH to completed = TRUE by the owner succeeded and the row holds it
C11_Witness ==
    /\ resp.op = "patch"
    /\ resp.status = 200
    /\ resp.req.completed = JBool(TRUE)
    /\ resp.data[1] \in todos
    /\ resp.data[1].user_id = Presented(resp.req).userId

\* the rows a DELETE or PATCH of the caller addresses: the id of the path
\* and the caller as owner
Matching(req, userId) ==
    {row \in todos : Named(req, row) /\ row.user_id = userId}

\* C12 as stated: a DELETE by caller C removes the one row with that id that
\* C owns and leaves every other row as it was; when no row has both the id
\* and owner C the response is 404 and the store is unchanged.
C12_DeleteFrame ==
    [][Served /\ resp'.op = "delete" /\ resp'.caller # 0 =>
         LET match == Matching(resp'.req, resp'.caller)
         IN /\ match # {} =>
                  /\ resp'.status = 200
                  /\ Cardinality(match) = 1
                  /\ todos' = todos \ match
            /\ match = {} =>
                  /\ resp'.status = 404
                  /\ todos' = todos
            /\ UNCHANGED <<users, usersSeq, todosSeq, tokens>>]_vars

\* what a handler's outcome shows of the token it was called with: nothing,
\* if two outcomes agree on the store and on the response apart from the
\* request it echoes
SameOutcome(o1, o2) ==
    /\ o1.todos = o2.todos /\ o1.todosSeq = o2.todosSeq
    /\ o1.users = o2.users /\ o1.tokens = o2.tokens
    /\ o1.resp.status = o2.resp.status
    /\ o1.resp.error = o2.resp.error
    /\ o1.resp.data = o2.resp.data
    /\ o1.resp.user = o2.resp.user
    /\ o1.resp.message = o2.resp.message
    /\ o1.resp.caller = o2.resp.caller

\* an issued token the gate is to accept now
Unexpired(tk) == tk \in tokens /\ now < tk.exp

\* C13: in every state, any two unexpired tokens issued to one account,
\* whenever each was issued, are answered alike by every gated route: each
\* succeeds where the other does, on the same rows, with the same response.
C13_TokensInterchangeable ==
    \A t1 \in tokens : \A t2 \in tokens :
       Unexpired(t1) /\ Unexpired(t2) /\ t1.email = t2.email =>
          /\ SameOutcome(me(TodoRequest(Bearer(t1), JUndef, <<>>, JUndef)),
                         me(TodoRequest(Bearer(t2), JUndef, <<>>, JUndef)))
          /\ getTodosRows(TodoRequest(Bearer(t1), JUndef, <<>>, JUndef))
                = getTodosRows(TodoRequest(Bearer(t2), JUndef, <<>>, JUndef))
          /\ getTodos(TodoRequest(Bearer(t1), JUndef, <<>>, JUndef), <<>>).resp.status = 200
          /\ SameOutcome(createTodo(TodoRequest(Bearer(t1), JStr(TextPadded), <<>>, JUndef)),
                         createTodo(TodoRequest(Bearer(t2), JStr(TextPadded), <<>>, JUndef)))
          /\ \A row \in todos :
                row.user_id = t1.userId =>
                   LET id == Str(<<Digits[row.id]>>)
                   IN /\ \A c \in {JBool(TRUE), JBool(FALSE)} :
                            /\ patchTodo(TodoRequest(Bearer(t1), JUndef, id, c)).resp.status = 200
                            /\ SameOutcome(patchTodo(TodoRequest(Bearer(t1), JUndef, id, c)),
                                           patchTodo(TodoRequest(Bearer(t2), JUndef, id, c)))
                      /\ deleteTodo(TodoRequest(Bearer(t1), JUndef, id, JUndef)).resp.status = 200
                      /\ SameOutcome(deleteTodo(TodoRequest(Bearer(t1), JUndef, id, JUndef)),
                                     deleteTodo(TodoRequest(Bearer(t2), JUndef, id, JUndef)))

\* the end of the scenario: the account holds the token of its registration
\* and the token of a later login, both unexpired; the one item created was
\* patched to completed and deleted, and the list asked with the
\* registration's token is empty
C13_Witness ==
    /\ \E t1 \in tokens : \E t2 \in tokens :
          /\ t1.iat < t2.iat /\ t1.email = t2.email
          /\ Unexpired(t1) /\ Unexpired(t2)
          /\ resp.req.hdr = Bearer(t1)
    /\ resp.op = "list" /\ resp.status = 200 /\ resp.data = <<>>
    /\ todosSeq = 1 /\ todos = {}

\* the inputs the handlers are to reject with 400, of a request served
InvalidInput(r) ==
    \/ /\ r.op \in {"register", "login"}
       /\ Falsy(r.req.email) \/ Falsy(r.req.password)
    \/ /\ r.op = "register"
       /\ ~Falsy(r.req.email) /\ ~Falsy(r.req.password)
       /\ r.req.email.t = "string"
       /\ ~emailRegexTest(r.req.email.s)
    \/ /\ r.op = "register"
       /\ ~Falsy(r.req.email) /\ r.req.email.t = "string"
       /\ emailRegexTest(r.req.email.s)
       /\ r.req.password.t = "string"
       /\ r.req.password.s # <<>>
       /\ StrLen(r.req.password.s) < MinPasswordLen
    \/ /\ r.op = "create" /\ r.caller # 0
       /\ r.req.text.t = "string" /\ trim(r.req.text.s) = <<>>
    \/ /\ r.op = "patch" /\ r.caller # 0
       /\ r.req.completed.t # "boolean"

\* C14: a request with one of the invalid inputs named is answered 400, and
\* a request answered 400 has run no statement on the store, has left the
\* store and the sequences as they were, and has issued no token.
C14_RejectBeforeStore ==
    [][Served =>
         /\ InvalidInput(resp') => resp'.status = 400
         /\ resp'.status = 400 =>
               /\ resp'.queries = <<>>
               /\ resp'.token = NoToken
               /\ UNCHANGED <<users, todos, usersSeq, todosSeq, tokens>>]_vars

\* a PATCH by the owner of an existing row with a completed that is no
\* boolean was answered 400 without a statement, the row as it was
C14_Witness ==
    /\ resp.op = "patch"
    /\ resp.status = 400
    /\ resp.queries = <<>>
    /\ \E row \in todos :
          /\ Named(resp.req, row)
          /\ row.user_id = resp.caller
          /\ ~row.completed

ItemIds(store) == {row.id : row \in store}

\* C15: in every step a row of todos stays as it is, or is the row a
\* successful DELETE names and is gone, or is the one row a successful PATCH
\* names and differs in its completed flag alone; a row appears only by a
\* successful create, under an id no row has; a response other than to a
\* create or a delete leaves the set of ids as it was; and register, login,
\* me and list leave todos as it is.
C15_ItemImmutable ==
    [][/\ \A row \in todos :
             \/ row \in todos'
             \/ /\ resp'.op = "delete" /\ resp'.status = 200
                /\ Named(resp'.req, row)
                /\ row.id \notin ItemIds(todos')
             \/ /\ resp'.op = "patch" /\ resp'.status = 200
                /\ Named(resp'.req, row)
                /\ todos' = (todos \ {row})
                      \cup {[row EXCEPT !.completed = resp'.req.completed.b]}
       /\ \A row \in todos' :
             row.id \notin ItemIds(todos) =>
                /\ resp'.op = "create" /\ resp'.status = 200
                /\ resp'.data = <<row>>
       /\ ~(resp'.op \in {"create", "delete"} /\ Served)
             => ItemIds(todos') = ItemIds(todos)
       /\ resp'.op \in {"register", "login", "me", "list"} /\ Served
             => todos' = todos]_vars

\* a row created at an earlier time of the store's clock was patched to
\* completed and has the text, the owner and the creation time it was given
C15_Witness ==
    /\ resp.op = "patch"
    /\ resp.status = 200
    /\ resp.data[1] \in todos
    /\ resp.data[1].completed
    /\ resp.data[1].created_at < dbNow
    /\ resp.data[1].text = TextPadded
    /\ resp.data[1].user_id = resp.caller

\* the ids of rows that were deleted: handed out by the sequence, and of no
\* row
Deleted(seq, store) == (1..seq) \ ItemIds(store)

\* the id a request's path names, 0 if it names none
PathId(req) == IF toBigint(req.id).ok THEN toBigint(req.id).v ELSE 0

\* C16: a successful DELETE leaves its id among the deleted ones; an id once
\* deleted stays so in every step, is of no row a list returns, and a PATCH
\* or DELETE on it, by whatever caller and however soon after the delete, is
\* answered 404; and a create numbers its row past every id handed out
\* before, so never with a deleted one.
C16_StaysDeleted ==
    [][/\ Served /\ resp'.op = "delete" /\ resp'.status = 200 =>
             /\ PathId(resp'.req) \in ItemIds(todos)
             /\ PathId(resp'.req) \in Deleted(todosSeq', todos')
       /\ \A id \in Deleted(todosSeq, todos) :
             /\ id \in Deleted(todosSeq', todos')
             /\ \A row \in Returned(resp') : Served => row.id # id
             /\ Served /\ resp'.op \in {"patch", "delete"} /\ resp'.caller # 0
                   /\ PathId(resp'.req) = id
                   /\ (resp'.op = "patch" => resp'.req.completed.t = "boolean")
                   => resp'.status = 404 /\ todos' = todos
       /\ \A row \in todos' \ todos :
             row.id \in ItemIds(todos) \/ row.id > todosSeq
       /\ \A row \in todos' : row.id <= todosSeq']_vars

\* the owner's PATCH on the id of the row deleted before was answered 404,
\* and the row created after the delete has another id
C16_Witness ==
    /\ resp.op = "patch"
    /\ resp.status = 404
    /\ PathId(resp.req) = 1
    /\ 1 \in Deleted(todosSeq, todos)
    /\ \E row \in todos : row.id = 2 /\ row.user_id = resp.caller
    /\ Cardinality(users) = 1

====
